---- MODULE Spec2Model ----
(***************************************************************************)
(* The `cifuzz bundle` command: PreRunE (logging setup, argument split,    *)
(* project configuration, platform gate, fuzz-test resolution, option      *)
(* validation) followed by RunE (spinner, bundler delegate, result         *)
(* classification).  One run of the command is one process; successive     *)
(* runs share only the files they leave behind.                            *)
(***************************************************************************)
EXTENDS Integers, Sequences, FiniteSets

\* ---------------------------------------------------------------- bounds
MaxArgs == 2
MaxGitChunks == 2
MaxTools == 2
MaxFaults == 1

\* ------------------------------------------------------------ value sets
BuildSystemCMake  == "cmake"
BuildSystemBazel  == "bazel"
BuildSystemMaven  == "maven"
BuildSystemGradle == "gradle"
BuildSystemNodeJS == "nodejs"
BuildSystemOther  == "other"

\* The kinds the tool understands.
SupportedBuildSystems ==
  { BuildSystemCMake, BuildSystemBazel, BuildSystemMaven,
    BuildSystemGradle, BuildSystemNodeJS, BuildSystemOther }

\* What a cifuzz.yaml may declare: a recognised kind or something else.
DeclaredBuildSystems == SupportedBuildSystems \cup { "scons" }

HostOSes == { "linux", "darwin", "windows" }

\* Fuzz tests declared in the project, and the tokens a user may type.
DeclaredFuzzTests == << "t1", "t2" >>
Tokens == { "t1", "t2", "zz" }

ProjectDir == "proj"
OutputPath == "out.tar.gz"

SeqsUpTo(S, n) == UNION { [1..k -> S] : k \in 0..n }

ToSet(s) == { s[i] : i \in 1..Len(s) }

\* ---------------------------------------------------------------- errors
NoErr == [kind |-> "nil", err |-> ""]
NotReturned == [kind |-> "none", err |-> ""]

\* cmdutils.WrapSilentError(err): a silent error carrying its cause.
WrapSilentError(e) == [kind |-> "silent", err |-> e]
\* cmdutils.ErrSilent: the bare silent marker.
ErrSilent == [kind |-> "silent", err |-> "ErrSilent"]
\* An error returned as it is.
PlainError(e) == [kind |-> "error", err |-> e]

\* ------------------------------------------------------------ log naming
RECURSIVE JoinTests(_)
JoinTests(l) ==
  IF l = << >> THEN ""
  ELSE IF Len(l) = 1 THEN l[1]
  ELSE l[1] \o "_" \o JoinTests(Tail(l))

\* logging.SuffixForLog: a file-system safe suffix computed from the list.
SuffixForLog(fuzzTests) ==
  IF fuzzTests = << >> THEN "all" ELSE JoinTests(fuzzTests)

\* logging.CreateLogDir(projectDir): the log directory below projectDir;
\* below the working directory when projectDir is still empty.
LogDir(projectDir) ==
  IF projectDir = "" THEN ".cifuzz-build/logs"
  ELSE projectDir \o "/.cifuzz-build/logs"

\* filepath.Join(logDir, fmt.Sprintf("%s.log", logSuffix))
BundleLogFileName(projectDir, fuzzTests) ==
  LogDir(projectDir) \o "/" \o SuffixForLog(fuzzTests) \o ".log"

\* logging.BuildOutputToFile(projectDir, fuzzTests): the build log file.
BuildLogFileName(projectDir, fuzzTests) ==
  LogDir(projectDir) \o "/build-" \o SuffixForLog(fuzzTests) \o ".log"

\* ---------------------------------------------------------------- writers
\* A writer is the sequence of sinks one Write call reaches, in order.
\* The nil writer reaches nothing.
NilWriter == << >>
FileWriter(name) == << name >>
TerminalStdout == << "terminal:stdout" >>
TerminalStderr == << "terminal:stderr" >>

\* io.MultiWriter(a, b): writes to a, then to b.
MultiWriter(a, b) == a \o b

Sinks(w) == ToSet(w)

\* ------------------------------------------------------------ resolution
RECURSIVE Dedup(_)
Dedup(l) ==
  IF l = << >> THEN << >>
  ELSE LET rest == Dedup(SubSeq(l, 1, Len(l) - 1))
           x == l[Len(l)]
       IN IF x \in ToSet(rest) THEN rest ELSE Append(rest, x)

\* resolve.FuzzTestArgument: the resolved list, or a resolution failure.
FuzzTestArgument(args, buildSystem) ==
  IF args = << >>
  THEN IF buildSystem \in { BuildSystemCMake, BuildSystemBazel,
                            BuildSystemMaven, BuildSystemGradle }
       THEN [ok |-> TRUE, tests |-> DeclaredFuzzTests]
       ELSE [ok |-> FALSE, tests |-> << >>]
  ELSE IF ToSet(args) \subseteq ToSet(DeclaredFuzzTests)
       THEN [ok |-> TRUE, tests |-> Dedup(args)]
       ELSE [ok |-> FALSE, tests |-> << >>]

\* ------------------------------------------------------- pure predicates
\* config.ValidateBuildSystem
ValidateBuildSystem(buildSystem) == buildSystem \in SupportedBuildSystems

\* The platform gate of PreRunE: TRUE when the run may go on.
PlatformGatePassesMavenOnly(buildSystem, goos, allowUnsupported) ==
  LET isOSIndependent == buildSystem = BuildSystemMaven
  IN ~ (goos # "linux" /\ ~isOSIndependent /\ ~allowUnsupported)

PlatformGatePasses(buildSystem, goos, allowUnsupported) ==
  LET isOSIndependent == buildSystem = BuildSystemMaven
                         \/ buildSystem = BuildSystemGradle
  IN ~ (goos # "linux" /\ ~isOSIndependent /\ ~allowUnsupported)

\* ------------------------------------------------------------------ state
VARIABLES
  env,        \* what this run is invoked with and on
  pc,         \* position of the run
  opts,       \* the options struct (bundler.Opts)
  args,       \* PreRunE's local args (fuzz test tokens)
  argsToPass, \* PreRunE's local argsToPass
  verboseOut, \* log.VerboseSecondaryOutput
  opened,     \* log files created or truncated by this run
  logs,       \* calls to the log package in this run
  stdout,     \* what was written to os.Stdout by this run
  spinner,    \* the progress spinner
  events,     \* pipeline stages executed by this run, in order
  gate,       \* outcome of the platform gate
  bundleErr,  \* what the delegate returned
  preRet,     \* what PreRunE returned
  runRet,     \* what RunE returned
  prev,       \* the previous accepted run: its fuzz tests and log file
  \* the project directory, as `cifuzz init` and `cifuzz integrate` see it
  cfgFile,    \* cifuzz.yaml exists
  gitIgnore,  \* .gitignore: whether it exists, and its content
  presets,    \* CMakeUserPresets.json
  tasks,      \* .vscode/tasks.json
  cmd,        \* the init or integrate command being run
  ipc,        \* position of that command
  ibs,        \* the build system the command has determined
  todo,       \* integrate: index of the next tool
  ilogs,      \* calls to the log package by that command, debug aside
  iret,       \* what the command returned
  exitCode,   \* status of os.Exit, when the command called it
  createCalled, \* init: CreateProjectConfig was called in this run
  lastGit,    \* .gitignore before the last setupGitIgnore, and how it ended
  faults      \* writes to .gitignore that failed part-way so far

bvars == << env, pc, opts, args, argsToPass, verboseOut, opened, logs,
            stdout, spinner, events, gate, bundleErr, preRet, runRet, prev >>

pvars == << cfgFile, gitIgnore, presets, tasks, cmd, ipc, ibs, todo, ilogs,
            iret, exitCode, createCalled, lastGit, faults >>

vars == << bvars, pvars >>

\* No .gitignore.
NoFile == [exists |-> FALSE, content |-> << >>]

\* No setupGitIgnore has run.
NoGitRun == [ran |-> FALSE, ok |-> FALSE, buildSystem |-> "", before |-> NoFile]

\* No init or integrate command is running.
NoCommand == [name |-> "none", tools |-> << >>, prerelease |-> FALSE]

\* A project directory nothing was done in, and no command running.
ProjectIdle ==
  /\ cmd = NoCommand
  /\ ipc = "idle"
  /\ ibs = ""
  /\ todo = 1
  /\ ilogs = << >>
  /\ iret = [kind |-> "none", err |-> ""]
  /\ exitCode = -1
  /\ createCalled = FALSE
  /\ lastGit = NoGitRun

Envs ==
  { e \in [ goos : HostOSes,
            allowUnsupported : BOOLEAN,
            logToFile : BOOLEAN,
            buildSystem : DeclaredBuildSystems,
            args : SeqsUpTo(Tokens, MaxArgs),
            argsLenAtDash : (-1)..MaxArgs ] :
      e.argsLenAtDash <= Len(e.args) }

\* &options{}: everything zero but OutputPath, which its flag has set before
\* PreRunE runs.  ProjectDir is empty until the project config is parsed.
ZeroOpts ==
  [ BuildSystem |-> "",
    ProjectDir |-> "",
    OutputPath |-> OutputPath,
    FuzzTests |-> << >>,
    BuildSystemArgs |-> << >>,
    BundleBuildLogFile |-> "",
    BuildStdout |-> NilWriter,
    BuildStderr |-> NilWriter ]

Log(level, msg) == [level |-> level, msg |-> msg]

\* No earlier run of the command in this project.
NoRun == [ran |-> FALSE, FuzzTests |-> << >>, BundleBuildLogFile |-> ""]

\* No process: nothing was invoked yet.
NoEnv ==
  [ goos |-> "linux", allowUnsupported |-> FALSE, logToFile |-> FALSE,
    buildSystem |-> "", args |-> << >>, argsLenAtDash |-> -1 ]

\* The state of a new process given the environment e.
Fresh(e) ==
  /\ env' = e
  /\ opts' = ZeroOpts
  /\ args' = e.args
  /\ argsToPass' = << >>
  /\ verboseOut' = NilWriter
  /\ opened' = {}
  /\ logs' = << >>
  /\ stdout' = << >>
  /\ spinner' = "none"
  /\ events' = << >>
  /\ gate' = "none"
  /\ bundleErr' = "none"
  /\ preRet' = NotReturned
  /\ runRet' = NotReturned

Init ==
  /\ env \in Envs
  /\ pc = "PreRunE"
  /\ opts = ZeroOpts
  /\ args = env.args
  /\ argsToPass = << >>
  /\ verboseOut = NilWriter
  /\ opened = {}
  /\ logs = << >>
  /\ stdout = << >>
  /\ spinner = "none"
  /\ events = << >>
  /\ gate = "none"
  /\ bundleErr = "none"
  /\ preRet = NotReturned
  /\ runRet = NotReturned
  /\ prev = NoRun
  /\ cfgFile = TRUE
  /\ gitIgnore = NoFile
  /\ presets = "absent"
  /\ tasks = "absent"
  /\ faults = 0
  /\ ProjectIdle

\* PreRunE logs err and returns it wrapped; cobra then does not call RunE.
PreRunEFailsUnwrapped(level, e) ==
  /\ logs' = Append(logs, Log(level, e))
  /\ preRet' = PlainError(e)
  /\ pc' = "done"

PreRunEFails(level, e) ==
  /\ logs' = Append(logs, Log(level, e))
  /\ preRet' = WrapSilentError(e)
  /\ pc' = "done"

\* ------------------------------------------------------ SetUpBundleLogging
\* The writer pair SetUpBundleLogging builds: buildLog is the writer
\* BuildOutputToFile returned, verbose is log.VerboseSecondaryOutput.
BuildWritersStderrSkipsBuildLog(logToFile, buildLog, verbose) ==
  IF logToFile
  THEN [ out |-> MultiWriter(buildLog, verbose),
         err |-> MultiWriter(verbose, verbose) ]
  ELSE [ out |-> MultiWriter(TerminalStdout, verbose),
         err |-> MultiWriter(TerminalStderr, verbose) ]

BuildWriters(logToFile, buildLog, verbose) ==
  IF logToFile
  THEN LET out == MultiWriter(buildLog, verbose)
       IN [ out |-> out, err |-> MultiWriter(out, verbose) ]
  ELSE [ out |-> MultiWriter(TerminalStdout, verbose),
         err |-> MultiWriter(TerminalStderr, verbose) ]

\* The outcomes of the three file-system calls of SetUpBundleLogging.
LogSetupOutcomes(logToFile) ==
  { "ok", "CreateLogDirFails", "OpenFileFails" }
    \cup (IF logToFile THEN { "BuildOutputToFileFails" } ELSE {})

\* PreRunE, first step: bindFlags and SetUpBundleLogging(cmd, &opts.Opts).
SetUpBundleLogging ==
  /\ pc = "PreRunE"
  /\ \E o \in LogSetupOutcomes(env.logToFile) :
       LET logFile == BundleLogFileName(opts.ProjectDir, opts.FuzzTests)
           buildLog == BuildLogFileName(opts.ProjectDir, opts.FuzzTests)
           verbose == FileWriter(logFile)
           w == BuildWriters(env.logToFile, FileWriter(buildLog), verbose)
           buildStdout == w.out
           buildStderr == w.err
           created ==
             CASE o = "CreateLogDirFails" -> {}
               [] o = "OpenFileFails" -> {}
               [] o = "BuildOutputToFileFails" -> { logFile }
               [] OTHER -> IF env.logToFile THEN { logFile, buildLog }
                           ELSE { logFile }
       IN /\ events' = Append(events, "logging")
          /\ opened' = opened \cup created
          /\ verboseOut' = IF o \in { "CreateLogDirFails", "OpenFileFails" }
                           THEN NilWriter ELSE verbose
          /\ opts' = [ opts EXCEPT
                         !.BundleBuildLogFile =
                            IF o = "CreateLogDirFails" THEN @ ELSE logFile,
                         !.BuildStdout = IF o = "ok" THEN buildStdout ELSE @,
                         !.BuildStderr = IF o = "ok" THEN buildStderr ELSE @ ]
          /\ IF o = "ok"
             THEN /\ pc' = "ParseConfig"
                  /\ UNCHANGED << logs, preRet >>
             ELSE PreRunEFails("error", "LogSetupError")
  /\ UNCHANGED << env, args, argsToPass, stdout, spinner, gate, bundleErr,
                  runRet, prev >>

\* ------------------------------------------------------------ PreRunE steps
\* The split of the positional arguments at "--": n is cmd.ArgsLenAtDash(),
\* the number of arguments before the separator, or -1 without one.
SplitArgsSkippingOne(a, n) ==
  IF n # -1
  THEN [ args |-> SubSeq(a, 1, n), argsToPass |-> SubSeq(a, n + 2, Len(a)) ]
  ELSE [ args |-> a, argsToPass |-> << >> ]

SplitArgs(a, n) ==
  IF n # -1
  THEN [ args |-> SubSeq(a, 1, n), argsToPass |-> SubSeq(a, n + 1, Len(a)) ]
  ELSE [ args |-> a, argsToPass |-> << >> ]

\* Split at "--", then config.FindAndParseProjectConfig(opts).
ParseConfig ==
  /\ pc = "ParseConfig"
  /\ LET split == SplitArgs(args, env.argsLenAtDash)
     IN /\ args' = split.args
        /\ argsToPass' = split.argsToPass
  /\ events' = Append(events, "config")
  /\ \E ok \in BOOLEAN :
       IF ok
       THEN /\ opts' = [opts EXCEPT !.BuildSystem = env.buildSystem,
                                     !.ProjectDir = ProjectDir]
            /\ pc' = "Gate"
            /\ UNCHANGED << logs, preRet >>
       ELSE /\ UNCHANGED opts
            /\ PreRunEFails("error", "ConfigParseError")
  /\ UNCHANGED << env, verboseOut, opened, stdout, spinner, gate,
                  bundleErr, runRet, prev >>

\* "Fail early if the platform is not supported."
PlatformGateWithoutReturn ==
  /\ pc = "Gate"
  /\ events' = Append(events, "gate")
  /\ gate' = IF PlatformGatePasses(opts.BuildSystem, env.goos,
                                   env.allowUnsupported)
             THEN "passed" ELSE "failed"
  /\ logs' = IF gate' = "failed"
             THEN Append(logs, Log("error", "UnsupportedPlatform")) ELSE logs
  /\ pc' = "Resolve"
  /\ UNCHANGED << env, opts, args, argsToPass, verboseOut, opened, stdout,
                  spinner, bundleErr, preRet, runRet, prev >>

PlatformGate ==
  /\ pc = "Gate"
  /\ events' = Append(events, "gate")
  /\ IF PlatformGatePasses(opts.BuildSystem, env.goos, env.allowUnsupported)
     THEN /\ gate' = "passed"
          /\ pc' = "Resolve"
          /\ UNCHANGED << logs, preRet >>
     ELSE /\ gate' = "failed"
          /\ PreRunEFails("error", "UnsupportedPlatform")
  /\ UNCHANGED << env, opts, args, argsToPass, verboseOut, opened,
                  stdout, spinner, bundleErr, runRet, prev >>

\* resolve.FuzzTestArgument and the two assignments after it.
ResolveFuzzTests ==
  /\ pc = "Resolve"
  /\ events' = Append(events, "resolve")
  /\ LET r == FuzzTestArgument(args, opts.BuildSystem)
     IN IF r.ok
        THEN /\ opts' = [opts EXCEPT !.FuzzTests = r.tests,
                                     !.BuildSystemArgs = argsToPass]
             /\ pc' = "Validate"
             /\ UNCHANGED << logs, preRet >>
        ELSE /\ UNCHANGED opts
             /\ PreRunEFails("print", "NoSuchFuzzTest")
  /\ UNCHANGED << env, args, argsToPass, verboseOut, opened, stdout,
                  spinner, gate, bundleErr, runRet, prev >>

\* options.Validate, whose result PreRunE returns.
Validate ==
  /\ pc = "Validate"
  /\ events' = Append(events, "validate")
  /\ IF ~ValidateBuildSystem(opts.BuildSystem)
     THEN PreRunEFails("error", "UnsupportedBuildSystem")
     ELSE IF opts.BuildSystem = BuildSystemNodeJS /\ ~env.allowUnsupported
     THEN PreRunEFails("error", "FeatureNotEnabled")
     ELSE \E ok \in BOOLEAN :
            \* opts.Opts.Validate()
            IF ok
            THEN /\ preRet' = NoErr
                 /\ pc' = "RunE"
                 /\ UNCHANGED logs
            ELSE /\ preRet' = PlainError("InvalidOpts")
                 /\ pc' = "done"
                 /\ UNCHANGED logs
  /\ UNCHANGED << env, opts, args, argsToPass, verboseOut, opened,
                  stdout, spinner, gate, bundleErr, runRet, prev >>

\* ------------------------------------------------------------------- RunE
\* logging.ShouldLogBuildToFile
ShouldLogBuildToFile == env.logToFile

\* What bundler.New(&opts.Opts).Bundle() may return.
BundleOutcomes == { "nil", "ExecError", "InternalError" }

\* errors.As(err, &execErr)
IsExecError(e) == e = "ExecError"

\* What RunE returns for the delegate's error err.
ClassifyErrorNeverSilent(err) == PlainError(err)

ClassifyErrorAlwaysSilent(err) == ErrSilent

ClassifyError(err) ==
  IF IsExecError(err) THEN ErrSilent ELSE PlainError(err)

\* What RunE logs once the delegate has succeeded.
SuccessLogsAlwaysBuildLog(logToFile, outputPath) ==
  << Log("info", "PathToBuildLog"), Log("success", outputPath) >>

SuccessLogs(logToFile, outputPath) ==
  (IF logToFile THEN << Log("info", "PathToBuildLog") >> ELSE << >>)
    \o << Log("success", outputPath) >>

\* RunE, up to the call of the delegate.
RunEStart ==
  /\ pc = "RunE"
  /\ preRet = NoErr
  /\ spinner' = IF ShouldLogBuildToFile THEN "running" ELSE spinner
  /\ pc' = "Bundle"
  /\ UNCHANGED << env, opts, args, argsToPass, verboseOut, opened, logs,
                  stdout, events, gate, bundleErr, preRet, runRet, prev >>

\* The blocking call bundler.New(&opts.Opts).Bundle().
Bundle ==
  /\ pc = "Bundle"
  /\ events' = Append(events, "bundle")
  /\ \E o \in BundleOutcomes : bundleErr' = o
  /\ pc' = "Report"
  /\ UNCHANGED << env, opts, args, argsToPass, verboseOut, opened, logs,
                  stdout, spinner, gate, preRet, runRet, prev >>

\* RunE after the delegate returned err, err != nil.
ReportFailure ==
  /\ pc = "Report"
  /\ bundleErr # "nil"
  /\ \E printOk \in BOOLEAN :
       LET afterPrint ==
             IF ShouldLogBuildToFile /\ ~printOk
             THEN Append(logs, Log("error", "PrintBuildLogError"))
             ELSE logs
       IN /\ spinner' = IF ShouldLogBuildToFile THEN "stopped:error"
                        ELSE spinner
          /\ stdout' = IF ShouldLogBuildToFile /\ printOk
                       THEN Append(stdout, "buildlog") ELSE stdout
          /\ logs' = IF IsExecError(bundleErr)
                     THEN Append(afterPrint, Log("error", bundleErr))
                     ELSE afterPrint
          /\ runRet' = ClassifyError(bundleErr)
  /\ pc' = "done"
  /\ UNCHANGED << env, opts, args, argsToPass, verboseOut, opened, events,
                  gate, bundleErr, preRet, prev >>

\* RunE after the delegate returned nil.
ReportSuccess ==
  /\ pc = "Report"
  /\ bundleErr = "nil"
  /\ spinner' = IF ShouldLogBuildToFile THEN "stopped:success" ELSE spinner
  /\ logs' = logs \o SuccessLogs(ShouldLogBuildToFile, opts.OutputPath)
  /\ runRet' = NoErr
  /\ pc' = "done"
  /\ UNCHANGED << env, opts, args, argsToPass, verboseOut, opened, stdout,
                  events, gate, bundleErr, preRet, prev >>

\* The process ends; the project keeps what an accepted run leaves behind.
Exit ==
  /\ pc = "done"
  /\ prev' = IF preRet = NoErr
             THEN [ran |-> TRUE, FuzzTests |-> opts.FuzzTests,
                   BundleBuildLogFile |-> opts.BundleBuildLogFile]
             ELSE prev
  /\ Fresh(NoEnv)
  /\ pc' = "exited"

\* The command is invoked again, in a new process, in the same project.
Invoke ==
  /\ pc = "exited"
  /\ \E e \in Envs :
       /\ env' = e
       /\ args' = e.args
  /\ pc' = "PreRunE"
  /\ UNCHANGED << opts, argsToPass, verboseOut, opened, logs, stdout, spinner,
                  events, gate, bundleErr, preRet, runRet, prev >>

Next ==
  \/ SetUpBundleLogging /\ UNCHANGED pvars
  \/ ParseConfig /\ UNCHANGED pvars
  \/ PlatformGate /\ UNCHANGED pvars
  \/ ResolveFuzzTests /\ UNCHANGED pvars
  \/ Validate /\ UNCHANGED pvars
  \/ RunEStart /\ UNCHANGED pvars
  \/ Bundle /\ UNCHANGED pvars
  \/ ReportFailure /\ UNCHANGED pvars
  \/ ReportSuccess /\ UNCHANGED pvars
  \/ Exit /\ UNCHANGED pvars
  \/ Invoke /\ UNCHANGED pvars

Spec == Init /\ [][Next]_vars

\* ------------------------------------------------------ cifuzz integrate
\* The content of a text file is a sequence of chunks: NL is a line break,
\* any other chunk is text without a line break.  Text next to text is one
\* text, so a content never holds two text chunks in a row.
NL == "\n"

\* The bytes of content followed by the text t.
AppendText(content, t) ==
  IF content # << >> /\ content[Len(content)] # NL
  THEN [content EXCEPT ![Len(content)] = @ \o t]
  ELSE Append(content, t)

\* strings.Split(content, "\n"): the lines, empty ones included.
RECURSIVE SplitLines(_)
SplitLines(content) ==
  IF content = << >> THEN << "" >>
  ELSE LET n == Len(content)
           head == SplitLines(SubSeq(content, 1, n - 1))
       IN IF content[n] = NL
          THEN Append(head, "")
          ELSE [head EXCEPT ![Len(head)] = @ \o content[n]]

\* stringutil.NonEmpty
NonEmpty(lines) == SelectSeq(lines, LAMBDA l : l # "")

\* stringutil.Contains
Contains(lines, l) == l \in ToSet(lines)

\* strings.Join(lines, "\n")
RECURSIVE JoinLines(_)
JoinLines(lines) ==
  IF lines = << >> THEN << >>
  ELSE IF Len(lines) = 1 THEN << lines[1] >>
  ELSE << lines[1], NL >> \o JoinLines(Tail(lines))

\* The patterns setupGitIgnore wants in .gitignore.
FilesToIgnore(buildSystem) ==
  << "/.cifuzz-corpus/", "/.cifuzz-findings/" >>
    \o (IF buildSystem = BuildSystemCMake
        THEN << "/.cifuzz-build/", "/CMakeUserPresets.json" >>
        ELSE << >>)

\* gitIgnore.WriteString(fileToIgnore + "\n") for the first n patterns that
\* are missing from the lines read before the loop.
RECURSIVE AppendMissing(_, _, _, _)
AppendMissing(content, existing, patterns, n) ==
  IF n = 0 THEN content
  ELSE LET sofar == AppendMissing(content, existing, patterns, n - 1)
       IN IF Contains(existing, patterns[n])
          THEN sofar
          ELSE Append(AppendText(sofar, patterns[n]), NL)

\* .gitignore after a setupGitIgnore that meets no I/O error.
SetupGitIgnoreFile(file, buildSystem) ==
  LET patterns == FilesToIgnore(buildSystem)
  IN IF ~file.exists
     THEN [exists |-> TRUE, content |-> JoinLines(patterns)]
     ELSE [exists |-> TRUE,
           content |-> AppendMissing(file.content,
                                     NonEmpty(SplitLines(file.content)),
                                     patterns, Len(patterns))]

LineSet(file) == ToSet(NonEmpty(SplitLines(file.content)))

\* What a .gitignore may hold before cifuzz touches it.
GitChunks == { "build", NL, "/.cifuzz-corpus/" }

InitialGitIgnores ==
  { NoFile } \cup
  { [exists |-> TRUE, content |-> c] :
      c \in { x \in SeqsUpTo(GitChunks, MaxGitChunks) :
                \A i \in 1..(Len(x) - 1) : x[i] = NL \/ x[i + 1] = NL } }

\* supportedTools()
SupportedTools == { "git", "cmake", "vscode" }

\* cobra.RangeArgs(1, len(supportedTools())) and cobra.OnlyValidArgs
ToolLists == SeqsUpTo(SupportedTools, MaxTools) \ { << >> }

\* The destination after setupCMakePresets / setupVSCodeTasks met no error:
\* the template is copied only to a destination that does not exist.
CopyAlways(dest) == "template"

CopyIfAbsent(dest) == IF dest = "absent" THEN "template" ELSE dest

\* What these two log: that the file was created, or the template itself.
TemplateMessage(dest) == IF dest = "absent" THEN "created" ELSE "template"

\* The end of a tool's setup inside integrateCmd.run's loop.
ToolSucceeds(tool, msg) ==
  /\ ilogs' = Append(ilogs, [level |-> "print", msg |-> tool \o ":" \o msg])
  /\ todo' = todo + 1
  /\ UNCHANGED << ipc, iret >>

ToolFails(e) ==
  /\ iret' = PlainError(e)
  /\ ipc' = "done"
  /\ UNCHANGED << ilogs, todo >>

CurrentTool ==
  IF ipc = "integrate:loop" /\ todo <= Len(cmd.tools)
  THEN cmd.tools[todo] ELSE ""

\* `cifuzz integrate <tools>` is invoked.
InvokeIntegrate ==
  /\ ipc = "idle"
  /\ \E tools \in ToolLists :
       cmd' = [name |-> "integrate", tools |-> tools, prerelease |-> FALSE]
  /\ ipc' = "integrate:run"
  /\ UNCHANGED << cfgFile, gitIgnore, presets, tasks, ibs, todo, ilogs, iret,
                  exitCode, createCalled, lastGit,
                  faults >>

\* integrateCmd.run up to its loop: config.FindConfigDir.
IntegrateFindConfigDir ==
  /\ ipc = "integrate:run"
  /\ IF ~cfgFile
     THEN /\ ilogs' = Append(ilogs, Log("error", "ErrNotExist"))
          /\ iret' = ErrSilent
          /\ ipc' = "done"
     ELSE \E ok \in BOOLEAN :
            IF ok
            THEN /\ ipc' = "integrate:loop"
                 /\ UNCHANGED << ilogs, iret >>
            ELSE /\ iret' = PlainError("FindConfigDirError")
                 /\ ipc' = "done"
                 /\ UNCHANGED ilogs
  /\ UNCHANGED << cfgFile, gitIgnore, presets, tasks, cmd, ibs, todo,
                  exitCode, createCalled, lastGit,
                  faults >>

\* A write that fails may have written the first bytes of a text: the
\* pattern less its last byte stands for each of its proper prefixes.
CutShort(t) ==
  CASE t = "/.cifuzz-corpus/" -> "/.cifuzz-corpus"
    [] t = "/.cifuzz-findings/" -> "/.cifuzz-findings"
    [] t = "/.cifuzz-build/" -> "/.cifuzz-build"
    [] OTHER -> "/CMakeUserPresets.jso"

\* What os.WriteFile may leave in the file it created when it returns an
\* error: any prefix of the bytes, all of them if only the close failed.
WrittenBeforeError(content) ==
  { SubSeq(content, 1, n) : n \in 0..Len(content) } \cup
  { Append(SubSeq(content, 1, n - 1), CutShort(content[n])) :
      n \in { i \in 1..Len(content) : content[i] # NL } }

\* The kinds setupGitIgnore may find: CMake, and two it treats alike.
GitBuildSystems == { BuildSystemCMake, BuildSystemMaven, BuildSystemOther }

\* case "git": setupGitIgnore(projectDir)
SetupGitIgnore ==
  /\ CurrentTool = "git"
  /\ \E bs \in GitBuildSystems :
       LET patterns == FilesToIgnore(bs)
           existing == NonEmpty(SplitLines(gitIgnore.content))
           record(ok) == [ran |-> TRUE, ok |-> ok, buildSystem |-> bs,
                          before |-> gitIgnore]
       IN \/ \* no error
             /\ gitIgnore' = SetupGitIgnoreFile(gitIgnore, bs)
             /\ lastGit' = record(TRUE)
             /\ ToolSucceeds("git", "added")
             /\ UNCHANGED faults
          \/ \* an error before anything is written
             /\ UNCHANGED << gitIgnore, faults >>
             /\ lastGit' = record(FALSE)
             /\ ToolFails("GitIgnoreError")
          \/ \* os.WriteFile fails after it has created the file
             /\ ~gitIgnore.exists
             /\ faults < MaxFaults
             /\ \E c \in WrittenBeforeError(JoinLines(patterns)) :
                  gitIgnore' = [exists |-> TRUE, content |-> c]
             /\ faults' = faults + 1
             /\ lastGit' = record(FALSE)
             /\ ToolFails("GitIgnoreError")
          \/ \* WriteString fails at the k-th pattern, nothing of it written
             \E k \in 1..Len(patterns) :
               /\ gitIgnore.exists
               /\ ~Contains(existing, patterns[k])
               /\ gitIgnore' =
                    [gitIgnore EXCEPT !.content =
                       AppendMissing(@, existing, patterns, k - 1)]
               /\ UNCHANGED faults
               /\ lastGit' = record(FALSE)
               /\ ToolFails("GitIgnoreError")
          \/ \* WriteString fails at the k-th pattern, part of it written
             \E k \in 1..Len(patterns) :
               /\ gitIgnore.exists
               /\ ~Contains(existing, patterns[k])
               /\ faults < MaxFaults
               /\ \E t \in { CutShort(patterns[k]), patterns[k] } :
                    gitIgnore' =
                      [gitIgnore EXCEPT !.content =
                         AppendText(AppendMissing(@, existing, patterns,
                                                  k - 1), t)]
               /\ faults' = faults + 1
               /\ lastGit' = record(FALSE)
               /\ ToolFails("GitIgnoreError")
  /\ UNCHANGED << cfgFile, presets, tasks, cmd, ibs, exitCode, createCalled >>

\* What a copy that fails may leave at a destination that did not exist.
AfterFailedCopy == { "absent", "partial" }

\* case "cmake": setupCMakePresets(projectDir, runfiles.Finder)
SetupCMakePresets ==
  /\ CurrentTool = "cmake"
  /\ \/ /\ presets' = CopyIfAbsent(presets)
        /\ ToolSucceeds("cmake", TemplateMessage(presets))
     \/ /\ UNCHANGED presets
        /\ ToolFails("CMakePresetsError")
     \/ /\ presets = "absent"
        /\ presets' \in AfterFailedCopy
        /\ ToolFails("CMakePresetsError")
  /\ UNCHANGED << cfgFile, gitIgnore, tasks, cmd, ibs, exitCode, createCalled,
                  lastGit, faults >>

\* case "vscode": setupVSCodeTasks(projectDir, runfiles.Finder)
SetupVSCodeTasks ==
  /\ CurrentTool = "vscode"
  /\ \/ /\ tasks' = CopyIfAbsent(tasks)
        /\ ToolSucceeds("vscode", TemplateMessage(tasks))
     \/ /\ UNCHANGED tasks
        /\ ToolFails("VSCodeTasksError")
     \/ /\ tasks = "absent"
        /\ tasks' \in AfterFailedCopy
        /\ ToolFails("VSCodeTasksError")
  /\ UNCHANGED << cfgFile, gitIgnore, presets, cmd, ibs, exitCode,
                  createCalled, lastGit,
                  faults >>

\* integrateCmd.run after the last tool.
IntegrateReturn ==
  /\ ipc = "integrate:loop"
  /\ todo > Len(cmd.tools)
  /\ iret' = NoErr
  /\ ipc' = "done"
  /\ UNCHANGED << cfgFile, gitIgnore, presets, tasks, cmd, ibs, todo, ilogs,
                  exitCode, createCalled, lastGit,
                  faults >>

\* The init or integrate process is gone; the project's files stay.
ProcessEnds ==
  /\ ipc \in { "done", "exited" }
  /\ cmd' = NoCommand
  /\ ipc' = "idle"
  /\ ibs' = ""
  /\ todo' = 1
  /\ ilogs' = << >>
  /\ iret' = NotReturned
  /\ exitCode' = -1
  /\ createCalled' = FALSE
  /\ lastGit' = NoGitRun
  /\ UNCHANGED << cfgFile, gitIgnore, presets, tasks, faults >>

\* ----------------------------------------------------------- cifuzz init
\* What config.DetermineBuildSystem may return: a kind, or an error.
DetermineOutcomes == DeclaredBuildSystems \cup { "error" }

\* NodeJS projects are set up only with CIFUZZ_PRERELEASE set.
NodeJSAlwaysAccepted(buildSystem, prerelease) == FALSE

NodeJSRefused(buildSystem, prerelease) ==
  buildSystem = BuildSystemNodeJS /\ ~prerelease

\* What run returns when config.CreateProjectConfig returned err # nil
\* together with configpath.
CreateError(err, configpath) ==
  IF err = "ErrExist" /\ configpath # "" THEN ErrSilent ELSE PlainError(err)

\* `cifuzz init` is invoked; CIFUZZ_PRERELEASE is set or not.
InvokeInit ==
  /\ ipc = "idle"
  /\ \E pre \in BOOLEAN :
       cmd' = [name |-> "init", tools |-> << >>, prerelease |-> pre]
  /\ ipc' = "init:PreRunE"
  /\ UNCHANGED << cfgFile, gitIgnore, presets, tasks, ibs, todo, ilogs, iret,
                  exitCode, createCalled, lastGit,
                  faults >>

\* init's PreRunE: os.Getwd, DetermineBuildSystem, ValidateBuildSystem.
InitPreRunE ==
  /\ ipc = "init:PreRunE"
  /\ \/ \* os.Getwd fails
        /\ iret' = PlainError("GetwdError")
        /\ ipc' = "done"
        /\ UNCHANGED << ibs, ilogs >>
     \/ \E r \in DetermineOutcomes :
          IF r = "error"
          THEN /\ ilogs' = Append(ilogs, Log("error", "IndeterminateBuildSystem"))
               /\ iret' = WrapSilentError("IndeterminateBuildSystem")
               /\ ipc' = "done"
               /\ UNCHANGED ibs
          ELSE /\ ibs' = r
               /\ IF ~ValidateBuildSystem(r)
                  THEN /\ ilogs' = Append(ilogs, Log("error", "UnsupportedBuildSystem"))
                       /\ iret' = WrapSilentError("UnsupportedBuildSystem")
                       /\ ipc' = "done"
                  ELSE /\ ipc' = "init:run"
                       /\ UNCHANGED << ilogs, iret >>
  /\ UNCHANGED << cfgFile, gitIgnore, presets, tasks, cmd, todo, exitCode,
                  createCalled, lastGit,
                  faults >>

\* What a Gradle project turns out to be: its build language or its
\* settings cannot be read, or it is a single- or a multi-project build.
GradleOutcomes == { "error", "single", "multi" }

\* What setUpAndMentionBuildSystemIntegrations logs when it returns (debug
\* messages are not recorded): the switch has no case for "other".
IntegrationMessages(buildSystem, gradle) ==
  IF buildSystem \in { BuildSystemBazel, BuildSystemCMake, BuildSystemNodeJS,
                       BuildSystemMaven }
  THEN << Log("print", "Instructions") >>
  ELSE IF buildSystem = BuildSystemGradle
  THEN CASE gradle = "error" -> << >>
         [] gradle = "single" -> << Log("print", "Instructions") >>
         [] OTHER -> << Log("warn", "GradleMultiProject"),
                        Log("print", "Instructions") >>
  ELSE << >>

\* run, first line: setUpAndMentionBuildSystemIntegrations.
SetUpAndMentionBuildSystemIntegrations ==
  /\ ipc = "init:run"
  /\ IF NodeJSRefused(ibs, cmd.prerelease)
     THEN /\ ilogs' = Append(ilogs, Log("print", "NodeJSNotSupported"))
          /\ exitCode' = 1
          /\ ipc' = "exited"
     ELSE /\ \E gradle \in GradleOutcomes :
               ilogs' = ilogs \o IntegrationMessages(ibs, gradle)
          /\ ipc' = "init:create"
          /\ UNCHANGED exitCode
  /\ UNCHANGED << cfgFile, gitIgnore, presets, tasks, cmd, ibs, todo, iret,
                  createCalled, lastGit,
                  faults >>

\* run, the rest: config.CreateProjectConfig and the report.
CreateProjectConfig ==
  /\ ipc = "init:create"
  /\ createCalled' = TRUE
  /\ IF cfgFile
     THEN \* (configpath, os.ErrExist)
          /\ ilogs' = ilogs \o << Log("warn", "ConfigExists"),
                                  Log("error", "FailedToCreateConfig") >>
          /\ iret' = CreateError("ErrExist", "cifuzz.yaml")
          /\ UNCHANGED cfgFile
     ELSE \E ok \in BOOLEAN :
            IF ok
            THEN /\ cfgFile' = TRUE
                 /\ ilogs' = ilogs \o << Log("success", "ConfigSaved"),
                                         Log("print", "UseCreate") >>
                 /\ iret' = NoErr
            ELSE /\ UNCHANGED cfgFile
                 /\ ilogs' = Append(ilogs, Log("error", "FailedToCreateConfig"))
                 /\ iret' = CreateError("IOError", "")
  /\ ipc' = "done"
  /\ UNCHANGED << gitIgnore, presets, tasks, cmd, ibs, todo, exitCode,
                  lastGit, faults >>

\* ------------------------------------------------- init and integrate runs
\* No bundle command has run.
BundleIdle ==
  /\ env = NoEnv
  /\ pc = "exited"
  /\ opts = ZeroOpts
  /\ args = << >>
  /\ argsToPass = << >>
  /\ verboseOut = NilWriter
  /\ opened = {}
  /\ logs = << >>
  /\ stdout = << >>
  /\ spinner = "none"
  /\ events = << >>
  /\ gate = "none"
  /\ bundleErr = "none"
  /\ preRet = NotReturned
  /\ runRet = NotReturned
  /\ prev = NoRun

\* A .gitignore that holds every pattern setupGitIgnore may want.
CompleteGitIgnore ==
  [exists |-> TRUE,
   content |-> AppendMissing(<< >>, << >>, FilesToIgnore(BuildSystemCMake),
                             Len(FilesToIgnore(BuildSystemCMake)))]

\* A project directory in some state, no cifuzz command running.  The three
\* files are written by code that shares nothing, so a start varies either
\* cifuzz.yaml and the two templates' destinations, or .gitignore.
ProjectInit ==
  /\ BundleIdle
  /\ cfgFile \in BOOLEAN
  /\ gitIgnore = CompleteGitIgnore
  /\ presets \in { "absent", "user" }
  /\ tasks \in { "absent", "user" }
  /\ faults = 0
  /\ ProjectIdle

GitInit ==
  /\ BundleIdle
  /\ cfgFile = TRUE
  /\ gitIgnore \in InitialGitIgnores
  /\ presets = "user"
  /\ tasks = "user"
  /\ faults = 0
  /\ ProjectIdle

ProjectNext ==
  \/ InvokeInit /\ UNCHANGED bvars
  \/ InitPreRunE /\ UNCHANGED bvars
  \/ SetUpAndMentionBuildSystemIntegrations /\ UNCHANGED bvars
  \/ CreateProjectConfig /\ UNCHANGED bvars
  \/ InvokeIntegrate /\ UNCHANGED bvars
  \/ IntegrateFindConfigDir /\ UNCHANGED bvars
  \/ SetupGitIgnore /\ UNCHANGED bvars
  \/ SetupCMakePresets /\ UNCHANGED bvars
  \/ SetupVSCodeTasks /\ UNCHANGED bvars
  \/ IntegrateReturn /\ UNCHANGED bvars
  \/ ProcessEnds /\ UNCHANGED bvars

SpecProject == ProjectInit /\ [][ProjectNext]_vars

SpecGit == GitInit /\ [][ProjectNext]_vars

\* ---------------------------------------------------------------- helpers
Happened(stage) == stage \in ToSet(events)

\* Every execution of stage a in this run comes before every one of b.
Before(a, b) ==
  \A i, j \in 1..Len(events) : (events[i] = a /\ events[j] = b) => i < j

LastStage == IF events = << >> THEN "" ELSE events[Len(events)]

\* PreRunE returned an error from the stage it was in.
RejectedBy(stage) ==
  /\ pc = "done"
  /\ preRet.kind \in { "silent", "error" }
  /\ LastStage = stage

\* SetUpBundleLogging has returned nil in this run.
LoggingSetUp == Happened("logging") /\ ~RejectedBy("logging")

\* The files SetUpBundleLogging names, from opts as PreRunE hands it over.
VerboseLogFile ==
  BundleLogFileName(ZeroOpts.ProjectDir, ZeroOpts.FuzzTests)

BuildLogFile == BuildLogFileName(ZeroOpts.ProjectDir, ZeroOpts.FuzzTests)

\* ------------------------------------------------------------------ claims

\* C1: in every run the platform gate executes before fuzz-test resolution,
\* resolution before logging setup, and logging setup before the delegate;
\* so a run rejected by the gate, by resolution or by option validation has
\* created or truncated no log file.
C1_LoggingAfterResolution ==
  /\ Before("gate", "resolve")
  /\ Before("resolve", "logging")
  /\ Before("logging", "bundle")
  /\ (RejectedBy("gate") \/ RejectedBy("resolve") \/ RejectedBy("validate"))
       => opened = {}

\* C2: the delegate is never invoked unless, earlier in the same run, the
\* platform gate passed and options.Validate returned nil; a run whose
\* PreRunE returned an error never reaches RunE or the delegate.
C2_DelegateOnlyAfterGateAndValidate ==
  /\ (Happened("bundle") \/ pc \in { "Bundle", "Report" })
       => /\ gate = "passed"
          /\ preRet = NoErr
          /\ Before("gate", "bundle")
          /\ Before("validate", "bundle")
          /\ Happened("validate")
  /\ preRet.kind \in { "silent", "error" }
       => /\ ~Happened("bundle")
          /\ runRet = NotReturned
          /\ spinner = "none"
          /\ pc \in { "done" }

C2_Witness ==
  /\ Happened("bundle")
  /\ gate = "passed"
  /\ env.goos = "darwin"
  /\ env.allowUnsupported

\* C3: for every (build system, host OS, override) the gate passes exactly
\* when the kind is Maven or Gradle, or the host is Linux, or the override
\* is set; otherwise the run ends with a silent UnsupportedPlatform error
\* and resolution is not attempted.
C3_PlatformGate ==
  gate # "none" =>
    /\ gate = "passed" <=>
         \/ opts.BuildSystem \in { BuildSystemMaven, BuildSystemGradle }
         \/ env.goos = "linux"
         \/ env.allowUnsupported
    /\ gate = "failed" =>
         /\ preRet = WrapSilentError("UnsupportedPlatform")
         /\ pc = "done"
         /\ ~Happened("resolve")
         /\ opts.FuzzTests = << >>

C3_Witness ==
  /\ gate = "failed"
  /\ opts.BuildSystem = BuildSystemCMake
  /\ env.goos = "windows"
  /\ pc = "done"

\* C4: the log-file name of a run is derived from that run's resolved
\* fuzz-test list: two runs in the same project with different resolved
\* lists use different log files, two runs with the same list the same.
C4_LogFileFromResolvedTests ==
  (preRet = NoErr /\ prev.ran) =>
    (prev.FuzzTests = opts.FuzzTests
       <=> prev.BundleBuildLogFile = opts.BundleBuildLogFile)

\* C5, as stated: once SetUpBundleLogging has returned nil, in both modes
\* BuildStdout and BuildStderr are non-nil and every sink a write to
\* BuildStdout reaches is also reached by a write to BuildStderr.
C5_StderrCoversStdout ==
  LoggingSetUp =>
    /\ opts.BuildStdout # NilWriter
    /\ opts.BuildStderr # NilWriter
    /\ Sinks(opts.BuildStdout) \subseteq Sinks(opts.BuildStderr)

\* C5, amended: once SetUpBundleLogging has returned nil, in both modes
\* BuildStdout and BuildStderr are non-nil fan-out writers that both reach
\* the verbose-log file; in log-build-to-file mode BuildStderr reaches every
\* sink BuildStdout reaches; in interactive mode BuildStdout reaches the
\* terminal's stdout and BuildStderr the terminal's stderr instead.
C5_WritersFanOut ==
  LoggingSetUp =>
    /\ opts.BuildStdout # NilWriter
    /\ opts.BuildStderr # NilWriter
    /\ VerboseLogFile \in Sinks(opts.BuildStdout)
    /\ VerboseLogFile \in Sinks(opts.BuildStderr)
    /\ verboseOut = FileWriter(VerboseLogFile)
    /\ opts.BundleBuildLogFile = VerboseLogFile
    /\ env.logToFile =>
         /\ Sinks(opts.BuildStdout) \subseteq Sinks(opts.BuildStderr)
         /\ BuildLogFile \in Sinks(opts.BuildStdout)
    /\ ~env.logToFile =>
         /\ Sinks(opts.BuildStdout) = Sinks(TerminalStdout) \cup { VerboseLogFile }
         /\ Sinks(opts.BuildStderr) = Sinks(TerminalStderr) \cup { VerboseLogFile }

C5_Witness ==
  /\ LoggingSetUp
  /\ env.logToFile
  /\ Cardinality(Sinks(opts.BuildStderr)) = 2

\* The number of entries of the log that equal entry.
RECURSIVE Count(_, _)
Count(l, entry) ==
  IF l = << >> THEN 0
  ELSE (IF l[1] = entry THEN 1 ELSE 0) + Count(Tail(l), entry)

\* RunE has returned in file-logging mode after the delegate's ExecError.
ExpectedFailureReported ==
  /\ pc = "done"
  /\ runRet # NotReturned
  /\ env.logToFile
  /\ bundleErr = "ExecError"

\* C6, as stated: in file-logging mode, when the delegate returns an
\* ExecError, the run stops the spinner with the error indicator, emits the
\* build log to standard output, logs the failure once and returns ErrSilent.
C6_ExpectedFailureEmitsBuildLog ==
  ExpectedFailureReported =>
    /\ spinner = "stopped:error"
    /\ stdout = << "buildlog" >>
    /\ Count(logs, Log("error", "ExecError")) = 1
    /\ runRet = ErrSilent

\* C6, amended: in file-logging mode, when the delegate returns an
\* ExecError, the run stops the spinner with the error indicator, calls
\* PrintBuildLogOnStdout (the build log reaches standard output unless that
\* call fails, and then its error is logged instead), logs the delegate's
\* failure once and returns ErrSilent.
C6_ExpectedFailureSilenced ==
  ExpectedFailureReported =>
    /\ spinner = "stopped:error"
    /\ \/ /\ stdout = << "buildlog" >>
          /\ logs = << Log("error", "ExecError") >>
       \/ /\ stdout = << >>
          /\ logs = << Log("error", "PrintBuildLogError"),
                       Log("error", "ExecError") >>
    /\ Count(logs, Log("error", "ExecError")) = 1
    /\ runRet = ErrSilent
    /\ runRet.kind = "silent"

C6_Witness ==
  /\ ExpectedFailureReported
  /\ stdout = << "buildlog" >>
  /\ runRet = ErrSilent

\* C7: when the delegate returns an error that is no ExecError, RunE
\* returns exactly that error, neither replaced by nor wrapped in the silent
\* marker, in file-logging and in interactive mode.
C7_UnexpectedFailureUnmodified ==
  (pc = "done" /\ runRet # NotReturned /\ bundleErr = "InternalError") =>
    /\ runRet = PlainError(bundleErr)
    /\ runRet.kind # "silent"
    /\ Count(logs, Log("error", "InternalError")) = 0

C7_Witness ==
  /\ pc = "done"
  /\ bundleErr = "InternalError"
  /\ runRet = PlainError("InternalError")
  /\ env.logToFile
  /\ spinner = "stopped:error"

\* C8: RunE returns nil exactly when the delegate returned success; on
\* success it always logs a success message with the configured output
\* path, and exactly in file-logging mode it first stops the spinner with
\* the success indicator and logs the path of the build log.
C8_SuccessReport ==
  (pc = "done" /\ runRet # NotReturned) =>
    /\ runRet = NoErr <=> bundleErr = "nil"
    /\ runRet = NoErr =>
         /\ logs # << >>
         /\ logs[Len(logs)] = Log("success", opts.OutputPath)
         /\ Count(logs, Log("success", opts.OutputPath)) = 1
         /\ env.logToFile <=> spinner = "stopped:success"
         /\ env.logToFile <=> Count(logs, Log("info", "PathToBuildLog")) = 1
         /\ env.logToFile => logs[1] = Log("info", "PathToBuildLog")
         /\ ~env.logToFile => (spinner = "none" /\ Len(logs) = 1)

C8_Witness ==
  /\ pc = "done"
  /\ runRet = NoErr
  /\ bundleErr = "nil"
  /\ env.logToFile
  /\ logs = << Log("info", "PathToBuildLog"), Log("success", OutputPath) >>

\* The fatal condition the stage PreRunE stopped in stands for.
DetectedCondition ==
  CASE LastStage = "logging" -> "LogSetupError"
    [] LastStage = "config" -> "ConfigParseError"
    [] LastStage = "gate" -> "UnsupportedPlatform"
    [] LastStage = "resolve" -> "NoSuchFuzzTest"
    [] LastStage = "validate" ->
         IF opts.BuildSystem \notin SupportedBuildSystems
         THEN "UnsupportedBuildSystem"
         ELSE IF opts.BuildSystem = BuildSystemNodeJS /\ ~env.allowUnsupported
         THEN "FeatureNotEnabled"
         ELSE "InvalidOpts"
    [] OTHER -> ""

\* C9: every fatal condition detected before the delegate is invoked (log
\* setup, config parse, unsupported build system, feature not enabled,
\* unsupported platform, resolution failure) is logged exactly once where
\* it is detected and returned wrapped as a silent error; the run stops.
C9_FatalLoggedOnceAndSilent ==
  (pc = "done" /\ runRet = NotReturned /\ DetectedCondition # "InvalidOpts") =>
    /\ preRet = WrapSilentError(DetectedCondition)
    /\ Len(logs) = 1
    /\ logs[1].msg = DetectedCondition
    /\ ~Happened("bundle")
    /\ spinner = "none"

C9_Witness ==
  /\ pc = "done"
  /\ runRet = NotReturned
  /\ DetectedCondition = "NoSuchFuzzTest"
  /\ preRet = WrapSilentError("NoSuchFuzzTest")
  /\ logs = << Log("print", "NoSuchFuzzTest") >>

\* C10: the build-system classifier runs first: an unrecognised kind, or
\* NodeJS without the override, is rejected before the platform gate is
\* evaluated and before fuzz-test resolution is attempted.
C10_ClassifierFirst ==
  /\ Before("validate", "gate")
  /\ Before("validate", "resolve")
  /\ (pc = "done" /\ preRet.err \in { "UnsupportedBuildSystem",
                                      "FeatureNotEnabled" })
       => (~Happened("gate") /\ ~Happened("resolve"))

\* C11: with a "--" separator at position k the tokens handed to the
\* resolver are exactly the first k arguments and BuildSystemArgs is exactly
\* the remaining ones in their order (together they are the argument list);
\* without a separator all arguments are fuzz-test tokens and
\* BuildSystemArgs is empty.
C11_ArgsSplitAtDash ==
  LET k == env.argsLenAtDash
      given == env.args
  IN /\ Happened("resolve") =>
          /\ k # -1 => (Len(args) = k /\ \A i \in 1..k : args[i] = given[i])
          /\ k = -1 => args = given
     /\ (Happened("resolve") /\ ~RejectedBy("resolve")) =>
          /\ args \o opts.BuildSystemArgs = given
          /\ k # -1 => Len(opts.BuildSystemArgs) = Len(given) - k
          /\ k = -1 => opts.BuildSystemArgs = << >>

C11_Witness ==
  /\ Happened("resolve")
  /\ ~RejectedBy("resolve")
  /\ env.argsLenAtDash = 1
  /\ Len(env.args) = 2
  /\ opts.BuildSystemArgs = << env.args[2] >>
  /\ opts.FuzzTests = << env.args[1] >>

\* C12: for any initial .gitignore and any sequence of successful
\* `integrate git` runs, after each run every required pattern is a complete
\* line of its own, every line that was there before the run is still
\* there, and a further run with the same build system changes nothing.
C12_GitIgnoreComplete ==
  (lastGit.ran /\ lastGit.ok) =>
    /\ ToSet(FilesToIgnore(lastGit.buildSystem)) \subseteq LineSet(gitIgnore)
    /\ LineSet(lastGit.before) \subseteq LineSet(gitIgnore)
    /\ SetupGitIgnoreFile(gitIgnore, lastGit.buildSystem) = gitIgnore

\* The tools integrateCmd.run has finished are the first todo - 1 of its
\* arguments, in their order, one message each.
ToolsInArgumentOrder ==
  cmd.name = "integrate" =>
    /\ todo <= Len(cmd.tools) + 1
    /\ Len(ilogs) \in { todo - 1, todo }
    /\ \A i \in 1..(todo - 1) :
         ilogs[i].msg \in { cmd.tools[i] \o ":" \o m :
                              m \in { "added", "created", "template" } }

\* C13: `integrate cmake` and `integrate vscode` never modify an existing
\* CMakeUserPresets.json or .vscode/tasks.json: the template is copied only
\* to a destination that does not exist, otherwise the file stays as it is
\* and the template is only printed; the tools are processed in argument
\* order, and the first tool that fails ends the run.
C13_ExistingFilesUntouched ==
  [][ /\ presets # "absent" => presets' = presets
      /\ tasks # "absent" => tasks' = tasks
      /\ presets' # presets => (CurrentTool = "cmake" /\ presets = "absent")
      /\ tasks' # tasks => (CurrentTool = "vscode" /\ tasks = "absent")
      /\ (CurrentTool = "cmake" /\ todo' = todo + 1) =>
           /\ presets' = "template" <=> presets \in { "absent", "template" }
           /\ ilogs'[todo].msg =
                (IF presets = "absent" THEN "cmake:created"
                 ELSE "cmake:template")
      /\ (CurrentTool = "vscode" /\ todo' = todo + 1) =>
           /\ tasks' = "template" <=> tasks \in { "absent", "template" }
           /\ ilogs'[todo].msg =
                (IF tasks = "absent" THEN "vscode:created"
                 ELSE "vscode:template")
      /\ ToolsInArgumentOrder'
      /\ (CurrentTool # "" /\ todo' = todo) =>
           (ipc' = "done" /\ iret'.kind = "error")
      /\ (cmd.name = "integrate" /\ iret.kind \in { "error", "silent" }) =>
           (gitIgnore' = gitIgnore /\ presets' = presets /\ tasks' = tasks
            /\ ipc' = "idle")
    ]_vars

C13_Witness ==
  /\ cmd.tools = << "cmake", "vscode" >>
  /\ ipc = "done"
  /\ iret = NoErr
  /\ presets = "user"
  /\ tasks = "template"
  /\ ilogs = << Log("print", "cmake:template"),
                Log("print", "vscode:created") >>

\* C14: init never calls CreateProjectConfig when the build system cannot
\* be determined, is not a recognised kind, or is NodeJS with
\* CIFUZZ_PRERELEASE unset (then the process exits with status 1 first);
\* when cifuzz.yaml already exists, init warns and returns the silent
\* marker, not success.
C14_InitCreatesConfigOnlyWhenSupported ==
  [][ cmd.name = "init" =>
        /\ createCalled' =>
             /\ ibs # ""
             /\ ibs \in SupportedBuildSystems
             /\ ~(ibs = BuildSystemNodeJS /\ ~cmd.prerelease)
        /\ (ipc = "init:PreRunE" /\ ipc' = "done") =>
             /\ iret'.kind \in { "silent", "error" }
             /\ ~createCalled'
             /\ cfgFile' = cfgFile
        /\ (ipc = "init:run" /\ ibs = BuildSystemNodeJS /\ ~cmd.prerelease) =>
             /\ exitCode' = 1
             /\ ipc' = "exited"
             /\ ~createCalled'
        /\ exitCode = 1 => (~createCalled' /\ cfgFile' = cfgFile)
        /\ (ipc = "init:create" /\ cfgFile) =>
             /\ iret' = ErrSilent
             /\ Count(ilogs', Log("warn", "ConfigExists")) = 1
             /\ cfgFile'
        /\ iret' = NoErr => (~cfgFile /\ cfgFile' /\ createCalled')
    ]_vars

C14_Witness ==
  /\ cmd.name = "init"
  /\ ipc = "done"
  /\ createCalled
  /\ iret = ErrSilent
  /\ ilogs[Len(ilogs) - 1] = Log("warn", "ConfigExists")

====
